---- MODULE Spec2Model ----
(***************************************************************************)
(* Model of src/representation/interactive_planner.js: the A* planner      *)
(* (astar, heuristic, reconstructPath) and the PathPlannerDemo component's *)
(* calculatePath / calculatePathDistance.                                  *)
(*                                                                         *)
(* Numbers are integers.  Node coordinates are drawn from a set of points  *)
(* whose pairwise distances are whole numbers, so Math.sqrt is modelled    *)
(* exactly (Sqrt below is defined only on perfect squares).                *)
(*                                                                         *)
(* generateSampleGraph is stepped through its two loops (SpecGen) on the   *)
(* layout of the code, with coordinates and distances rounded to whole     *)
(* numbers.                                                                *)
(***************************************************************************)
EXTENDS Integers, Sequences, FiniteSets, TLC

\* ------------------------------------------------------------------ bounds
NumNodes == 3
MaxEdges == 3
MaxWeightUnits == 2
MaxGoals == 3
NumNodesMulti == 4
NumNodesReopen == 4
MaxEdgesReopen == 4
NumNodesUI == 3
MaxGoalsUI == 2
NumMissionNodes == 4
MaxZones == 2

\* ------------------------------------------------------------------ inputs
NodeIds == 0 .. (NumNodes - 1)

\* Points with whole-number pairwise distances (0 and 5).
Coords == { <<0, 0>>, <<3, 4>> }

\* Edge weights: multiples of the distance between the two points, so that a
\* weight can be below, equal to or above the straight-line distance.
Weights == { 5 * k : k \in 0 .. MaxWeightUnits }

Range(s) == { s[i] : i \in DOMAIN s }

Edge(f, t, w, tr) == [from |-> f, to |-> t, weight |-> w, traversable |-> tr]

\* Edge lists of at most MaxEdges edges between distinct nodes, at most one
\* edge per ordered pair (an edge is identified by (from, to)), with weights
\* in ws and traversable flags in trs.
EdgeLists(ws, trs) ==
  LET all == { Edge(f, t, w, tr) : f \in NodeIds, t \in NodeIds,
                                   w \in ws, tr \in trs }
      vals == { e \in all : e.from # e.to }
  IN  UNION { { es \in [1 .. n -> vals] :
                  \A i, j \in 1 .. n :
                     (i # j) => (es[i].from # es[j].from \/ es[i].to # es[j].to) }
              : n \in 0 .. MaxEdges }

\* ------------------------------------------------------------------ helpers
NoNode == -1

MapHas(m, k) == k \in DOMAIN m

MapSet(m, k, v) == [x \in (DOMAIN m) \cup {k} |-> IF x = k THEN v ELSE m[x]]

EmptyMap == [x \in {} |-> 0]

\* Math.sqrt on the perfect squares the coordinates produce.
Sqrt(n) == CHOOSE r \in 0 .. n : r * r = n

heuristic(a, b) ==
  LET dx == a[1] - b[1]
      dy == a[2] - b[2]
  IN  Sqrt(dx * dx + dy * dy)

\* Set.add: appends unless already present (insertion order is kept).
SetAdd(s, x) == IF x \in Range(s) THEN s ELSE Append(s, x)

\* Set.delete
SetDelete(s, x) == SelectSeq(s, LAMBDA y : y # x)

\* ------------------------------------------------------------------ astar
\* The graph object { nodes, edges }: nodes is the array indexed by node id.
Graph(ns, es) == [nodes |-> ns, edges |-> es]

KnownNode(graph, n) == n \in DOMAIN graph.nodes

\* Array.from(openSet).reduce((a, b) => fScore.get(a) < fScore.get(b) ? a : b)
RECURSIVE ReduceMinF(_, _, _, _)
ReduceMinF(open, f, a, i) ==
  IF i > Len(open) THEN a
  ELSE ReduceMinF(open, f, IF f[a] < f[open[i]] THEN a ELSE open[i], i + 1)

PickCurrent(open, f) == ReduceMinF(open, f, open[1], 2)

\* edges.filter(e => e.from === current || e.to === current)
\*      .map(e => e.from === current ? e.to : e.from)
Neighbors(graph, current) ==
  LET inc == SelectSeq(graph.edges, LAMBDA e : e.from = current \/ e.to = current)
  IN  [i \in 1 .. Len(inc) |-> IF inc[i].from = current THEN inc[i].to ELSE inc[i].from]

\* edges.find(e => (e.from === current && e.to === neighbor) ||
\*                 (e.to === current && e.from === neighbor))
FindEdge(graph, current, neighbor) ==
  Head(SelectSeq(graph.edges,
                 LAMBDA e : (e.from = current /\ e.to = neighbor)
                            \/ (e.to = current /\ e.from = neighbor)))

\* Relax without the "|| tentativeG < gScore.get(neighbor)" test: a node's
\* score is never improved once set.
RelaxOnlyUnseen(graph, goal, st, current, neighbor) ==
  LET edge == FindEdge(graph, current, neighbor)
      tentativeG == st.gScore[current] + edge.weight
  IN  IF ~MapHas(st.gScore, neighbor)
      THEN [st EXCEPT
              !.cameFrom = MapSet(st.cameFrom, neighbor, current),
              !.gScore = MapSet(st.gScore, neighbor, tentativeG),
              !.fScore = MapSet(st.fScore, neighbor,
                                tentativeG + heuristic(graph.nodes[neighbor],
                                                       graph.nodes[goal])),
              !.openSet = SetAdd(st.openSet, neighbor)]
      ELSE st

\* Relax with tentativeG <= gScore.get(neighbor) in place of < (line 86).
RelaxOnEqual(graph, goal, st, current, neighbor) ==
  LET edge == FindEdge(graph, current, neighbor)
      tentativeG == st.gScore[current] + edge.weight
  IN  IF ~MapHas(st.gScore, neighbor) \/ tentativeG <= st.gScore[neighbor]
      THEN [st EXCEPT
              !.cameFrom = MapSet(st.cameFrom, neighbor, current),
              !.gScore = MapSet(st.gScore, neighbor, tentativeG),
              !.fScore = MapSet(st.fScore, neighbor,
                                tentativeG + heuristic(graph.nodes[neighbor],
                                                       graph.nodes[goal])),
              !.openSet = SetAdd(st.openSet, neighbor)]
      ELSE st

\* Body of the for loop over neighbors (lines 79-91) for one neighbor.
Relax(graph, goal, st, current, neighbor) ==
  LET edge == FindEdge(graph, current, neighbor)
      tentativeG == st.gScore[current] + edge.weight
  IN  IF ~MapHas(st.gScore, neighbor) \/ tentativeG < st.gScore[neighbor]
      THEN [st EXCEPT
              !.cameFrom = MapSet(st.cameFrom, neighbor, current),
              !.gScore = MapSet(st.gScore, neighbor, tentativeG),
              !.fScore = MapSet(st.fScore, neighbor,
                                tentativeG + heuristic(graph.nodes[neighbor],
                                                       graph.nodes[goal])),
              !.openSet = SetAdd(st.openSet, neighbor)]
      ELSE st

\* The for loop over neighbors (lines 78-92), from the i-th neighbor on; r is
\* the search state after the i-th.
RECURSIVE RelaxAll(_, _, _, _, _, _)
RelaxAll(graph, goal, st, current, nbrs, i) ==
  IF i > Len(nbrs) THEN st
  ELSE CHOOSE out \in { RelaxAll(graph, goal, r, current, nbrs, i + 1) :
                          r \in { Relax(graph, goal, st, current, nbrs[i]) } } : TRUE

\* reconstructPath with path.push(current) in place of path.unshift(current)
\* (line 108).
RECURSIVE reconstructPathPush(_, _)
reconstructPathPush(cameFrom, current) ==
  IF MapHas(cameFrom, current)
  THEN <<current>> \o reconstructPathPush(cameFrom, cameFrom[current])
  ELSE <<current>>

\* reconstructPath(cameFrom, current)
RECURSIVE reconstructPath(_, _)
reconstructPath(cameFrom, current) ==
  IF MapHas(cameFrom, current)
  THEN reconstructPath(cameFrom, cameFrom[current]) \o <<current>>
  ELSE <<current>>

\* Lines 55-61: the search state astar starts from.  Reading .x of an
\* undefined node (an id outside the nodes array) raises a TypeError.
AstarStart(graph, start, goal) ==
  IF KnownNode(graph, start) /\ KnownNode(graph, goal)
  THEN [openSet |-> <<start>>,
        cameFrom |-> EmptyMap,
        gScore |-> MapSet(EmptyMap, start, 0),
        fScore |-> MapSet(EmptyMap, start,
                          heuristic(graph.nodes[start], graph.nodes[goal])),
        status |-> "running", path |-> <<>>]
  ELSE [openSet |-> <<start>>, cameFrom |-> EmptyMap, gScore |-> EmptyMap,
        fScore |-> EmptyMap, status |-> "threw", path |-> <<>>]

\* AstarStep with the goal test made after the neighbours are relaxed.
AstarStepLateGoalTest(graph, goal, st) ==
  IF Len(st.openSet) = 0
  THEN [st EXCEPT !.status = "null"]
  ELSE LET current == PickCurrent(st.openSet, st.fScore)
           after == RelaxAll(graph, goal,
                             [st EXCEPT !.openSet = SetDelete(st.openSet, current)],
                             current, Neighbors(graph, current), 1)
       IN  IF current = goal
           THEN [after EXCEPT !.status = "path",
                              !.path = reconstructPath(after.cameFrom, current)]
           ELSE after

\* One evaluation of the while condition and, when it holds, one iteration of
\* the loop body (lines 63-93); line 95 when the open set is empty.
AstarStep(graph, goal, st) ==
  IF Len(st.openSet) = 0
  THEN [st EXCEPT !.status = "null"]
  ELSE LET current == PickCurrent(st.openSet, st.fScore)
       IN  IF current = goal
           THEN [st EXCEPT !.status = "path",
                           !.path = reconstructPath(st.cameFrom, current)]
           ELSE RelaxAll(graph, goal,
                         [st EXCEPT !.openSet = SetDelete(st.openSet, current)],
                         current, Neighbors(graph, current), 1)

RECURSIVE AstarLoop(_, _, _)
AstarLoop(graph, goal, st) ==
  IF st.status # "running" THEN st
  ELSE AstarLoop(graph, goal, AstarStep(graph, goal, st))

\* astar(graph, start, goal): the record's status is "path" (with the path),
\* "null" or "threw".
astar(graph, start, goal) == AstarLoop(graph, goal, AstarStart(graph, start, goal))

\* calculatePathDistance(path)
RECURSIVE calculatePathDistance(_, _)
calculatePathDistance(graph, path) ==
  IF Len(path) <= 1 THEN 0
  ELSE heuristic(graph.nodes[path[1]], graph.nodes[path[2]])
       + calculatePathDistance(graph, Tail(path))

\* ------------------------------------------------------------------ multi-goal
\* new Set(multiGoals): duplicates dropped, first occurrences kept in order.
RECURSIVE SetOf(_)
SetOf(s) ==
  IF s = <<>> THEN <<>>
  ELSE SetAdd(SetOf(SubSeq(s, 1, Len(s) - 1)), s[Len(s)])

\* bestDist = Infinity (line 144): below every distance.
Infinity == -1

\* dist < bestDist
Less(dist, bestDist) == bestDist = Infinity \/ dist < bestDist

\* Lines 142-144.
BestInit ==
  [bestGoal |-> NoNode, bestPath |-> <<>>, bestDist |-> Infinity, threw |-> FALSE]

\* Body of the for loop over remaining (lines 147-155) for one goal.  An
\* exception raised by astar leaves calculatePath.
ScanGoal(graph, current, best, goal) ==
  IF best.threw THEN best
  ELSE LET r == astar(graph, current, goal)
       IN  IF r.status = "threw" THEN [best EXCEPT !.threw = TRUE]
           ELSE IF r.status = "path"
           THEN LET dist == calculatePathDistance(graph, r.path)
                IN  IF Less(dist, best.bestDist)
                    THEN [best EXCEPT !.bestDist = dist, !.bestGoal = goal,
                                      !.bestPath = r.path]
                    ELSE best
           ELSE best

RECURSIVE ScanGoals(_, _, _, _, _)
ScanGoals(graph, current, best, remaining, i) ==
  IF i > Len(remaining) THEN best
  ELSE ScanGoals(graph, current, ScanGoal(graph, current, best, remaining[i]),
                 remaining, i + 1)

\* !bestGoal (line 158): true of null and of the number 0.
Falsy(bestGoal) == bestGoal = NoNode \/ bestGoal = 0

\* ------------------------------------------------------------------ paths
\* Exhaustive search: every sequence of distinct nodes of the graph.  With
\* weights >= 0 a cheapest path never needs to repeat a node.
SimpleSeqs(graph) ==
  LET ids == DOMAIN graph.nodes
  IN  UNION { { p \in [1 .. n -> ids] : \A i, j \in 1 .. n : i # j => p[i] # p[j] }
              : n \in 1 .. Cardinality(ids) }

Hops(p) == 1 .. (Len(p) - 1)

\* An edge from u to v.
DirEdge(graph, u, v) == \E e \in Range(graph.edges) : e.from = u /\ e.to = v

\* An edge between u and v, in either direction.
Joined(graph, u, v) == DirEdge(graph, u, v) \/ DirEdge(graph, v, u)

\* Paths from s to t that follow every edge from its from node to its to node.
DirectedPaths(graph, s, t) ==
  { p \in SimpleSeqs(graph) :
      /\ p[1] = s /\ p[Len(p)] = t
      /\ \A i \in Hops(p) : DirEdge(graph, p[i], p[i + 1]) }

\* Paths from s to t over edges taken in either direction.
JoinedPaths(graph, s, t) ==
  { p \in SimpleSeqs(graph) :
      /\ p[1] = s /\ p[Len(p)] = t
      /\ \A i \in Hops(p) : Joined(graph, p[i], p[i + 1]) }

\* Total stored weight along a path, each step weighed by the edge astar
\* reads for it (line 79).
RECURSIVE PathWeight(_, _)
PathWeight(graph, p) ==
  IF Len(p) <= 1 THEN 0
  ELSE FindEdge(graph, p[1], p[2]).weight + PathWeight(graph, Tail(p))

\* Every edge weighs at least the straight-line distance between its ends.
Admissible(graph) ==
  \A e \in Range(graph.edges) :
     e.weight >= heuristic(graph.nodes[e.from], graph.nodes[e.to])

\* ------------------------------------------------------------------ state
VARIABLES
  nodes,        \* graph.nodes
  edges,        \* graph.edges
  startNode, goalNode, multiGoals, mode, currentPath,   \* component state
  pc,           \* position inside calculatePath
  openSet, cameFrom, gScore, fScore,                    \* locals of astar
  status, path, \* how the running astar call ended, and its return value
  current, remaining, fullPath,                         \* locals of the multi branch
  animating, robotPos,                                  \* component state (lines 120-121)
  interval,     \* whether the timer animatePath started is still set
  pos,          \* animatePath's local counter (line 184)
  capturedPath, \* the currentPath animatePath's timer callback closed over
  exGraph,      \* the mission's edges with their failure penalties
  exState,      \* state of the Mission Executor
  exZones, exIdx, exOutcome,   \* the zones' nodes, the leg under way, the trace
  exNode, exRetries, exPath,   \* current node, retries of this leg, path being walked
  genNodes, genEdges,          \* locals nodes and edges of generateSampleGraph
  genI, genJ,   \* its loop counters i and j
  genPc         \* position inside generateSampleGraph

vars == <<nodes, edges, startNode, goalNode, multiGoals, mode, currentPath, pc,
          openSet, cameFrom, gScore, fScore, status, path,
          current, remaining, fullPath,
          animating, robotPos, interval, pos, capturedPath,
          exGraph, exState, exZones, exIdx, exOutcome, exNode, exRetries, exPath,
          genNodes, genEdges, genI, genJ, genPc>>

graphVars == <<nodes, edges>>
inputVars == <<startNode, goalNode, multiGoals, mode>>
astarVars == <<openSet, cameFrom, gScore, fScore, status, path>>
multiVars == <<current, remaining, fullPath>>
animVars == <<animating, robotPos, interval, pos, capturedPath>>
exVars == <<exGraph, exState, exZones, exIdx, exOutcome, exNode, exRetries, exPath>>
genVars == <<genNodes, genEdges, genI, genJ, genPc>>

graph == Graph(nodes, edges)

search == [openSet |-> openSet, cameFrom |-> cameFrom, gScore |-> gScore,
           fScore |-> fScore, status |-> status, path |-> path]

SetSearch(st) ==
  /\ openSet' = st.openSet
  /\ cameFrom' = st.cameFrom
  /\ gScore' = st.gScore
  /\ fScore' = st.fScore
  /\ status' = st.status
  /\ path' = st.path

\* Node ids a user can enter: the ids of the graph and one id outside it.
InputIds == 0 .. NumNodes

NoSearch ==
  /\ openSet = <<>> /\ cameFrom = EmptyMap /\ gScore = EmptyMap
  /\ fScore = EmptyMap /\ status = "none" /\ path = <<>>

NoMulti == current = NoNode /\ remaining = <<>> /\ fullPath = <<>>

\* No mission is being executed.
NoMission ==
  /\ exGraph = <<>> /\ exState = "Idle" /\ exZones = <<>> /\ exIdx = 0
  /\ exOutcome = <<>> /\ exNode = NoNode /\ exRetries = 0 /\ exPath = <<>>

\* generateSampleGraph is not being stepped: its result is given by Init.
NoGeneration ==
  /\ genNodes = <<>> /\ genEdges = <<>> /\ genI = 0 /\ genJ = 0
  /\ genPc = "none"

\* Lines 120-121: no animation was started.
NoAnimation ==
  /\ animating = FALSE /\ robotPos = 0
  /\ interval = FALSE /\ pos = 0 /\ capturedPath = <<>>

\* The component mounted in single mode, before the effect runs calculatePath.
\* The edge objects of the code carry no traversable attribute: every edge is
\* traversable.
InitSingle ==
  /\ nodes \in [NodeIds -> Coords]
  /\ edges \in EdgeLists(Weights, {TRUE})
  /\ startNode \in InputIds
  /\ goalNode \in InputIds
  /\ multiGoals = <<>>
  /\ mode = "single"
  /\ currentPath = <<>>
  /\ pc = "mounted"
  /\ NoSearch
  /\ NoMulti
  /\ NoAnimation
  /\ NoMission
  /\ NoGeneration

\* calculatePath, single branch, line 133: astar is entered (lines 55-61).
CalculatePathSingle ==
  /\ pc = "mounted"
  /\ mode = "single"
  /\ SetSearch(AstarStart(graph, startNode, goalNode))
  /\ pc' = IF KnownNode(graph, startNode) /\ KnownNode(graph, goalNode)
           THEN "astar" ELSE "threw"
  /\ UNCHANGED <<genVars, exVars, graphVars, inputVars, animVars, currentPath, multiVars>>

\* One pass of astar's while loop (lines 63-95).
AstarIterate ==
  /\ pc = "astar"
  /\ status = "running"
  /\ SetSearch(AstarStep(graph, goalNode, search))
  /\ UNCHANGED <<genVars, exVars, graphVars, inputVars, animVars, currentPath, pc, multiVars>>

\* Line 134: setCurrentPath(path || []).
SetCurrentPathSingle ==
  /\ pc = "astar"
  /\ status \in {"path", "null"}
  /\ currentPath' = IF status = "path" THEN path ELSE <<>>
  /\ pc' = "done"
  /\ UNCHANGED <<genVars, exVars, graphVars, inputVars, animVars, astarVars, multiVars>>

NextSingle == CalculatePathSingle \/ AstarIterate \/ SetCurrentPathSingle

Spec == InitSingle /\ [][NextSingle]_vars

\* The same component over a graph loaded from the documented world model,
\* whose edges carry a traversable attribute (src/project.md, line 100).
\* astar never reads the attribute.
TraversableWeights == { 5 }

InitTraversable ==
  /\ nodes \in [NodeIds -> Coords]
  /\ edges \in EdgeLists(TraversableWeights, BOOLEAN)
  /\ startNode \in InputIds
  /\ goalNode \in InputIds
  /\ multiGoals = <<>>
  /\ mode = "single"
  /\ currentPath = <<>>
  /\ pc = "mounted"
  /\ NoSearch
  /\ NoMulti
  /\ NoAnimation
  /\ NoMission
  /\ NoGeneration

SpecTraversable == InitTraversable /\ [][NextSingle]_vars

\* ------------------------------------------------------------------ multi mode
MultiNodeIds == 0 .. (NumNodesMulti - 1)

\* The pairs (i, j), i < j, in the order generateSampleGraph's two loops
\* visit them (lines 33-34).
RECURSIVE PairsFrom(_, _, _)
PairsFrom(i, j, n) ==
  IF i >= n THEN <<>>
  ELSE IF j >= n THEN PairsFrom(i + 1, i + 2, n)
  ELSE <<(<<i, j>>)>> \o PairsFrom(i, j + 1, n)

\* Edges as generateSampleGraph pushes them (lines 40-44): from < to, weight
\* the distance between the two nodes, in loop order; keep says which pairs
\* are connected.
SampleEdges(ns, keep) ==
  LET all == PairsFrom(0, 1, Cardinality(DOMAIN ns))
      kept == SelectSeq(all, LAMBDA pr : pr \in keep)
  IN  [k \in 1 .. Len(kept) |->
         Edge(kept[k][1], kept[k][2],
              heuristic(ns[kept[k][1]], ns[kept[k][2]]), TRUE)]

GoalLists == UNION { [1 .. n -> MultiNodeIds] : n \in 0 .. MaxGoals }

\* The component in multi mode, before the effect runs calculatePath.  Node 0
\* is placed at the origin: distances depend only on coordinate differences.
InitMulti ==
  /\ nodes \in { ns \in [MultiNodeIds -> Coords] : ns[0] = <<0, 0>> }
  /\ \E keep \in SUBSET { pr \in MultiNodeIds \X MultiNodeIds : pr[1] < pr[2] } :
        /\ Cardinality(keep) <= MaxEdges
        /\ edges = SampleEdges(nodes, keep)
  /\ startNode \in MultiNodeIds
  /\ goalNode = 0
  /\ multiGoals \in GoalLists
  /\ mode = "multi"
  /\ currentPath = <<>>
  /\ pc = "mounted"
  /\ NoSearch
  /\ NoMulti
  /\ NoAnimation
  /\ NoMission
  /\ NoGeneration

\* calculatePath, multi branch, lines 137-139.
MultiBegin ==
  /\ pc = "mounted"
  /\ mode = "multi"
  /\ current' = startNode
  /\ remaining' = SetOf(multiGoals)
  /\ fullPath' = <<startNode>>
  /\ pc' = "multi"
  /\ UNCHANGED <<genVars, exVars, graphVars, inputVars, animVars, currentPath, astarVars>>

\* MultiIterate without remaining.delete(bestGoal) (line 162).
MultiIterateNoDelete ==
  /\ pc = "multi"
  /\ Len(remaining) > 0
  /\ LET best == ScanGoals(graph, current, BestInit, remaining, 1)
     IN  IF best.threw
         THEN /\ pc' = "threw"
              /\ UNCHANGED multiVars
         ELSE IF Falsy(best.bestGoal)
         THEN /\ pc' = "break"
              /\ UNCHANGED multiVars
         ELSE /\ fullPath' = fullPath \o Tail(best.bestPath)
              /\ current' = best.bestGoal
              /\ remaining' = remaining
              /\ pc' = "multi"
  /\ UNCHANGED <<genVars, exVars, graphVars, inputVars, animVars, currentPath, astarVars>>

\* MultiIterate appending the whole of bestPath, without slice(1) (line 160).
MultiIterateNoSlice ==
  /\ pc = "multi"
  /\ Len(remaining) > 0
  /\ LET best == ScanGoals(graph, current, BestInit, remaining, 1)
     IN  IF best.threw
         THEN /\ pc' = "threw"
              /\ UNCHANGED multiVars
         ELSE IF Falsy(best.bestGoal)
         THEN /\ pc' = "break"
              /\ UNCHANGED multiVars
         ELSE /\ fullPath' = fullPath \o best.bestPath
              /\ current' = best.bestGoal
              /\ remaining' = SetDelete(remaining, best.bestGoal)
              /\ pc' = "multi"
  /\ UNCHANGED <<genVars, exVars, graphVars, inputVars, animVars, currentPath, astarVars>>

\* One pass of the while loop (lines 141-163).
MultiIterate ==
  /\ pc = "multi"
  /\ Len(remaining) > 0
  /\ LET best == ScanGoals(graph, current, BestInit, remaining, 1)
     IN  IF best.threw
         THEN /\ pc' = "threw"
              /\ UNCHANGED multiVars
         ELSE IF Falsy(best.bestGoal)
         THEN /\ pc' = "break"
              /\ UNCHANGED multiVars
         ELSE /\ fullPath' = fullPath \o Tail(best.bestPath)
              /\ current' = best.bestGoal
              /\ remaining' = SetDelete(remaining, best.bestGoal)
              /\ pc' = "multi"
  /\ UNCHANGED <<genVars, exVars, graphVars, inputVars, animVars, currentPath, astarVars>>

\* Line 165: setCurrentPath(fullPath), after the loop ended or was left.
SetCurrentPathMulti ==
  /\ \/ pc = "multi" /\ Len(remaining) = 0
     \/ pc = "break"
  /\ currentPath' = fullPath
  /\ pc' = "done"
  /\ UNCHANGED <<genVars, exVars, graphVars, inputVars, animVars, astarVars, multiVars>>

NextMulti == MultiBegin \/ MultiIterate \/ SetCurrentPathMulti

SpecMulti == InitMulti /\ [][NextMulti]_vars

\* ------------------------------------------------------------------ re-opened nodes
ReopenNodeIds == 0 .. (NumNodesReopen - 1)

\* Weights zero and one unit: enough for an edge to weigh less than the
\* distance between its ends.
ReopenWeights == { 0, 5 }

\* An edge list in generateSampleGraph's order (from < to, lines 33-44) whose
\* weights are loaded values rather than the distances between the nodes; w
\* gives the weight of each connected pair.
LoadedEdges(w) ==
  LET all == PairsFrom(0, 1, NumNodesReopen)
      kept == SelectSeq(all, LAMBDA pr : pr \in DOMAIN w)
  IN  [k \in 1 .. Len(kept) |->
         Edge(kept[k][1], kept[k][2], w[kept[k]], TRUE)]

\* The component in single mode with its initial startNode 0 (line 115) and
\* a known goal, before the effect runs calculatePath.
InitReopen ==
  /\ nodes \in { ns \in [ReopenNodeIds -> Coords] : ns[0] = <<0, 0>> }
  /\ \E keep \in SUBSET { pr \in ReopenNodeIds \X ReopenNodeIds : pr[1] < pr[2] } :
        /\ Cardinality(keep) <= MaxEdgesReopen
        /\ \E w \in [keep -> ReopenWeights] : edges = LoadedEdges(w)
  /\ startNode = 0
  /\ goalNode \in ReopenNodeIds
  /\ multiGoals = <<>>
  /\ mode = "single"
  /\ currentPath = <<>>
  /\ pc = "mounted"
  /\ NoSearch
  /\ NoMulti
  /\ NoAnimation
  /\ NoMission
  /\ NoGeneration

\* astar's while loop is straight-line synchronous code: once calculatePath is
\* called the engine keeps executing it, one step after the other, until it
\* returns or throws.
SpecReopen == InitReopen /\ [][NextSingle]_vars /\ WF_vars(NextSingle)

\* The component's own state.
plannerFrame ==
  <<graphVars, inputVars, currentPath, pc, astarVars, multiVars, animVars>>

\* ------------------------------------------------------------------ the component
UINodeIds == 0 .. (NumNodesUI - 1)

\* parseInt of an empty field (lines 239, 250, 261).
NaN == -2

\* What parseInt(e.target.value) yields for a number field: a node id, an id
\* past the end of the nodes array, or NaN.
FieldValues == UINodeIds \cup { NumNodesUI, NaN }

\* e.target.value.split(',').map(s => parseInt(s.trim())) (line 261).
TypedGoals == UNION { [1 .. n -> FieldValues] : n \in 0 .. MaxGoalsUI }

\* .filter(n => !isNaN(n)) (line 261).
ParseGoals(typed) == SelectSeq(typed, LAMBDA n : n # NaN)

\* The while loop of the multi branch (lines 141-163) run to its end.
RECURSIVE MultiWhile(_, _, _, _)
MultiWhile(g, cur, rem, acc) ==
  IF Len(rem) = 0 THEN [threw |-> FALSE, path |-> acc]
  ELSE LET best == ScanGoals(g, cur, BestInit, rem, 1)
       IN  IF best.threw THEN [threw |-> TRUE, path |-> <<>>]
           ELSE IF Falsy(best.bestGoal) THEN [threw |-> FALSE, path |-> acc]
           ELSE MultiWhile(g, best.bestGoal, SetDelete(rem, best.bestGoal),
                           acc \o Tail(best.bestPath))

\* calculatePath (lines 131-167) as a function of the state it reads: the
\* argument of its setCurrentPath call, or the fact that it threw.
calculatePath(g, m, s, t, goals) ==
  IF m = "single"
  THEN LET r == astar(g, s, t)
       IN  IF r.status = "threw" THEN [threw |-> TRUE, path |-> <<>>]
           ELSE [threw |-> FALSE,
                 path |-> IF r.status = "path" THEN r.path ELSE <<>>]
  ELSE MultiWhile(g, s, SetOf(goals), <<s>>)

\* The component as useState leaves it (lines 114-121), before the effect
\* has run: start 0, the goal and the goal list known nodes.  The nodes lie
\* alternately on two points five apart; any set of pairs may be connected.
InitUI ==
  /\ nodes = [i \in UINodeIds |-> IF i % 2 = 0 THEN <<0, 0>> ELSE <<3, 4>>]
  /\ \E keep \in SUBSET { pr \in UINodeIds \X UINodeIds : pr[1] < pr[2] } :
        edges = SampleEdges(nodes, keep)
  /\ startNode = 0
  /\ goalNode = NumNodesUI - 1
  /\ multiGoals = [i \in 1 .. MaxGoalsUI |-> i]
  /\ mode = "single"
  /\ currentPath = <<>>
  /\ pc = "mounted"
  /\ NoSearch
  /\ NoMulti
  /\ NoAnimation
  /\ NoMission
  /\ NoGeneration

\* Effect with calculatePath wrapped in try/catch, showing no path on an
\* exception.
EffectCaught(changed) ==
  IF changed
  THEN LET r == calculatePath(graph, mode', startNode', goalNode', multiGoals')
       IN  pc' = "idle" /\ currentPath' = r.path
  ELSE UNCHANGED <<pc, currentPath>>

\* The effect of lines 197-199 after a render in which one of its
\* dependencies changed: calculatePath on the new state.  An exception leaves
\* the effect uncaught and React unmounts the component.
Effect(changed) ==
  IF changed
  THEN LET r == calculatePath(graph, mode', startNode', goalNode', multiGoals')
       IN  IF r.threw
           THEN pc' = "threw" /\ UNCHANGED currentPath
           ELSE pc' = "idle" /\ currentPath' = r.path
  ELSE UNCHANGED <<pc, currentPath>>

\* MountEffect with calculatePath reversing graph.edges in place
\* (Array.prototype.reverse) before it searches.
MountEffectReversesEdges ==
  /\ pc = "mounted"
  /\ UNCHANGED inputVars
  /\ edges' = [k \in 1 .. Len(edges) |-> edges[Len(edges) + 1 - k]]
  /\ LET r == calculatePath(Graph(nodes, edges'), mode, startNode, goalNode,
                            multiGoals)
     IN  IF r.threw
         THEN pc' = "threw" /\ UNCHANGED currentPath
         ELSE pc' = "idle" /\ currentPath' = r.path
  /\ UNCHANGED <<genVars, exVars, nodes, astarVars, multiVars, animVars>>

\* The first run of the effect, after mount.
MountEffect ==
  /\ pc = "mounted"
  /\ UNCHANGED inputVars
  /\ Effect(TRUE)
  /\ UNCHANGED <<genVars, exVars, graphVars, astarVars, multiVars, animVars>>

\* Lines 235-243: the start field, shown in single mode.
ChangeStartNode ==
  /\ pc = "idle"
  /\ mode = "single"
  /\ \E v \in FieldValues :
        /\ startNode' = v
        /\ UNCHANGED <<goalNode, multiGoals, mode>>
        /\ Effect(v # startNode)
  /\ UNCHANGED <<genVars, exVars, graphVars, astarVars, multiVars, animVars>>

\* Lines 246-254: the goal field, shown in single mode.
ChangeGoalNode ==
  /\ pc = "idle"
  /\ mode = "single"
  /\ \E v \in FieldValues :
        /\ goalNode' = v
        /\ UNCHANGED <<startNode, multiGoals, mode>>
        /\ Effect(v # goalNode)
  /\ UNCHANGED <<genVars, exVars, graphVars, astarVars, multiVars, animVars>>

\* Lines 257-268: the goal list field, shown in multi mode.  Every change
\* sets a new array, so the effect always runs.
ChangeMultiGoals ==
  /\ pc = "idle"
  /\ mode = "multi"
  /\ \E typed \in TypedGoals :
        /\ multiGoals' = ParseGoals(typed)
        /\ UNCHANGED <<startNode, goalNode, mode>>
        /\ Effect(TRUE)
  /\ UNCHANGED <<genVars, exVars, graphVars, astarVars, multiVars, animVars>>

\* Lines 222-229: the mode select.
ChangeMode ==
  /\ pc = "idle"
  /\ \E m \in {"single", "multi"} :
        /\ mode' = m
        /\ UNCHANGED <<startNode, goalNode, multiGoals>>
        /\ Effect(m # mode)
  /\ UNCHANGED <<genVars, exVars, graphVars, astarVars, multiVars, animVars>>

\* A click on the Animate button (lines 273-276, enabled unless animating or
\* the path is empty) running animatePath up to setInterval (lines 179-185).
AnimatePath ==
  /\ pc = "idle"
  /\ ~(animating \/ Len(currentPath) = 0)
  /\ IF Len(currentPath) = 0
     THEN UNCHANGED animVars
     ELSE /\ animating' = TRUE
          /\ robotPos' = 0
          /\ pos' = 0
          /\ interval' = TRUE
          /\ capturedPath' = currentPath
  /\ UNCHANGED <<genVars, exVars, graphVars, inputVars, currentPath, pc, astarVars, multiVars>>

\* Tick without "pos = currentPath.length - 1" (line 190).
TickNoClamp ==
  /\ interval
  /\ LET done == pos + 1 >= Len(capturedPath)
     IN  /\ pos' = pos + 1
         /\ interval' = ~done
         /\ IF pc = "threw"
            THEN UNCHANGED <<animating, robotPos>>
            ELSE /\ animating' = (animating /\ ~done)
                 /\ robotPos' = pos'
  /\ UNCHANGED <<genVars, exVars, graphVars, inputVars, currentPath, pc, astarVars, multiVars,
                 capturedPath>>

\* Tick without clearInterval(interval) (line 188).
TickNoClear ==
  /\ interval
  /\ LET done == pos + 1 >= Len(capturedPath)
     IN  /\ pos' = IF done THEN Len(capturedPath) - 1 ELSE pos + 1
         /\ interval' = interval
         /\ IF pc = "threw"
            THEN UNCHANGED <<animating, robotPos>>
            ELSE /\ animating' = (animating /\ ~done)
                 /\ robotPos' = pos'
  /\ UNCHANGED <<genVars, exVars, graphVars, inputVars, currentPath, pc, astarVars, multiVars,
                 capturedPath>>

\* One run of the timer callback (lines 185-193).  It reads the length of the
\* currentPath of the render animatePath was called in.  The state setters of
\* an unmounted component do nothing.
Tick ==
  /\ interval
  /\ LET done == pos + 1 >= Len(capturedPath)
     IN  /\ pos' = IF done THEN Len(capturedPath) - 1 ELSE pos + 1
         /\ interval' = ~done
         /\ IF pc = "threw"
            THEN UNCHANGED <<animating, robotPos>>
            ELSE /\ animating' = (animating /\ ~done)
                 /\ robotPos' = pos'
  /\ UNCHANGED <<genVars, exVars, graphVars, inputVars, currentPath, pc, astarVars, multiVars,
                 capturedPath>>

NextUI ==
  \/ MountEffect
  \/ ChangeStartNode
  \/ ChangeGoalNode
  \/ ChangeMultiGoals
  \/ ChangeMode
  \/ AnimatePath
  \/ Tick

SpecUI == InitUI /\ [][NextUI]_vars

\* setInterval (line 185) keeps delivering the callback every 300 ms until
\* clearInterval.
SpecUIFair == SpecUI /\ WF_vars(Tick)

\* ------------------------------------------------------------------ mission executor
\* The Cost Model and the Mission Executor are not part of the component
\* above; they are modelled from their description (spec.md, sections 4.1,
\* 4.2 and 4.6).
MissionNodes == 0 .. (NumMissionNodes - 1)

\* The dock, and the node every mission starts from.
Dock == 0

\* Retry cap for one zone (default 3).
MaxRetries == 3

\* Reliability in percent.
Reliabilities == { 50, 100 }

MissionEdge(f, t, c) ==
  [from |-> f, to |-> t, base_cost |-> c, reliability |-> 100,
   traversable |-> TRUE, failure_penalty |-> 0, failures |-> 0]

\* The scenario graph A, B, C with A-B and B-C of cost 2 and A-C of cost 5,
\* and a fourth node whose only incoming edge leaves C; every pair is joined
\* in both directions.
MissionEdges ==
  << MissionEdge(0, 1, 2), MissionEdge(1, 2, 2), MissionEdge(0, 2, 5),
     MissionEdge(2, 3, 2), MissionEdge(1, 0, 2), MissionEdge(2, 1, 2),
     MissionEdge(2, 0, 5), MissionEdge(3, 2, 2) >>

\* effective_cost(edge) = base_cost / reliability + failure_penalty.
effective_cost(e) == (e.base_cost * 100) \div e.reliability + e.failure_penalty

\* edge(from, to): the index of that edge in the graph.
EdgeIndex(g, f, t) == CHOOSE k \in DOMAIN g : g[k].from = f /\ g[k].to = t

\* apply_penalty that stores the amount instead of adding it.
apply_penalty_overwrite(g, f, t, amount) ==
  LET k == EdgeIndex(g, f, t)
  IN  [g EXCEPT ![k].failure_penalty = amount, ![k].failures = @ + 1]

\* apply_penalty(from, to, amount) adds to that edge's failure_penalty; the
\* executor also counts the failure.
apply_penalty(g, f, t, amount) ==
  LET k == EdgeIndex(g, f, t)
  IN  [g EXCEPT ![k].failure_penalty = @ + amount, ![k].failures = @ + 1]

MissionSeqs ==
  UNION { { p \in [1 .. n -> MissionNodes] : \A i, j \in 1 .. n : i # j => p[i] # p[j] }
          : n \in 1 .. NumMissionNodes }

\* Paths from s to t along traversable edges.
TraversablePaths(g, s, t) ==
  { p \in MissionSeqs :
      /\ p[1] = s /\ p[Len(p)] = t
      /\ \A i \in Hops(p) :
            \E k \in DOMAIN g :
               g[k].from = p[i] /\ g[k].to = p[i + 1] /\ g[k].traversable }

RECURSIVE PlanCost(_, _)
PlanCost(g, p) ==
  IF Len(p) < 2 THEN 0
  ELSE effective_cost(g[EdgeIndex(g, p[1], p[2])]) + PlanCost(g, Tail(p))

\* plan(start, goal): a path of least total effective cost over traversable
\* edges, or Unreachable.
plan(g, s, t) ==
  LET paths == TraversablePaths(g, s, t)
  IN  IF paths = {} THEN [found |-> FALSE, path |-> <<>>]
      ELSE [found |-> TRUE,
            path |-> CHOOSE p \in paths :
                        \A q \in paths : PlanCost(g, p) <= PlanCost(g, q)]

plannerVars ==
  <<graphVars, inputVars, currentPath, pc, astarVars, multiVars, animVars, genVars>>

\* The node the leg under way leads to: a zone's node, or the dock after the
\* last zone.
Target == IF exIdx <= Len(exZones) THEN exZones[exIdx] ELSE Dock

\* A mission over up to MaxZones zones is handed to the executor at the dock.
\* Some of the edges 0->1 and 2->3 may be non-traversable, some of the edges
\* 0->1 and 0->2 unreliable.
InitExec ==
  /\ nodes = <<>> /\ edges = <<>>
  /\ startNode = 0 /\ goalNode = 0 /\ multiGoals = <<>> /\ mode = "single"
  /\ currentPath = <<>> /\ pc = "mounted"
  /\ NoSearch /\ NoMulti /\ NoAnimation /\ NoGeneration
  /\ \E blocked \in SUBSET {1, 4}, weak \in SUBSET {1, 3} :
        exGraph = [k \in DOMAIN MissionEdges |->
                     [MissionEdges[k] EXCEPT
                        !.traversable = (k \notin blocked),
                        !.reliability = IF k \in weak THEN 50 ELSE 100]]
  /\ exZones \in { z \in UNION { [1 .. n -> MissionNodes \ {Dock}] : n \in 1 .. MaxZones } :
                    \A i, j \in DOMAIN z : i # j => z[i] # z[j] }
  /\ exOutcome = [i \in DOMAIN exZones |-> "pending"]
  /\ exIdx = 1
  /\ exNode = Dock
  /\ exRetries = 0
  /\ exPath = <<>>
  /\ exState = "Planning"

\* A failed attempt, retry cap ignored.
RetryOrGiveUpNoCap ==
  /\ exRetries' = exRetries + 1
  /\ exState' = "Planning"
  /\ UNCHANGED <<exIdx, exOutcome>>

\* After a failed attempt: replan for the same zone, or past the retry cap
\* mark the zone unreachable (the mission abandoned if the leg led to the
\* dock).
RetryOrGiveUp ==
  IF exRetries < MaxRetries
  THEN /\ exRetries' = exRetries + 1
       /\ exState' = "Planning"
       /\ UNCHANGED <<exIdx, exOutcome>>
  ELSE IF exIdx <= Len(exZones)
  THEN /\ exState' = "ZoneUnreachable"
       /\ exOutcome' = [exOutcome EXCEPT ![exIdx] = "unreachable"]
       /\ UNCHANGED <<exIdx, exRetries>>
  ELSE /\ exState' = "MissionAbandoned"
       /\ UNCHANGED <<exIdx, exOutcome, exRetries>>

\* The leg's target is reached.
Arrive ==
  IF exIdx <= Len(exZones)
  THEN /\ exState' = "ZoneComplete"
       /\ exOutcome' = [exOutcome EXCEPT ![exIdx] = "completed"]
  ELSE /\ exState' = "MissionComplete"
       /\ UNCHANGED exOutcome

\* Planning: plan from the current node to the target on the graph as
\* penalized so far.
Planning ==
  /\ exState = "Planning"
  /\ LET r == plan(exGraph, exNode, Target)
     IN  IF ~r.found
         THEN RetryOrGiveUp /\ UNCHANGED exPath
         ELSE IF Len(r.path) = 1
         THEN Arrive /\ UNCHANGED <<exPath, exIdx, exRetries>>
         ELSE /\ exPath' = r.path
              /\ exState' = "Traversing"
              /\ UNCHANGED <<exIdx, exOutcome, exRetries>>
  /\ UNCHANGED <<exGraph, exZones, exNode, plannerVars>>

\* Traversing: the external skill reports success for the next edge.
TraverseSuccess ==
  /\ exState = "Traversing"
  /\ exNode' = exPath[2]
  /\ exPath' = Tail(exPath)
  /\ IF Len(exPath) = 2
     THEN Arrive
     ELSE UNCHANGED <<exState, exOutcome>>
  /\ UNCHANGED <<exGraph, exZones, exIdx, exRetries, plannerVars>>

\* Traversing: the external skill reports failure for the next edge.  The
\* edge is penalized by its own base_cost and the rest of the path dropped.
TraverseFailure ==
  /\ exState = "Traversing"
  /\ LET k == EdgeIndex(exGraph, exPath[1], exPath[2])
     IN  exGraph' = apply_penalty(exGraph, exPath[1], exPath[2],
                                  exGraph[k].base_cost)
  /\ exPath' = <<>>
  /\ RetryOrGiveUp
  /\ UNCHANGED <<exZones, exNode, plannerVars>>

\* ZoneComplete or ZoneUnreachable: on to the next zone, or to the dock.
NextZone ==
  /\ exState \in {"ZoneComplete", "ZoneUnreachable"}
  /\ exIdx' = exIdx + 1
  /\ exRetries' = 0
  /\ exState' = "Planning"
  /\ UNCHANGED <<exGraph, exZones, exOutcome, exNode, exPath, plannerVars>>

NextExec == Planning \/ TraverseSuccess \/ TraverseFailure \/ NextZone

SpecExec == InitExec /\ [][NextExec]_vars

\* ------------------------------------------------------------------ generateSampleGraph
\* Loop bound of the node loop (line 11) and the distance below which two
\* nodes are connected (line 38).
SampleNodeCount == 40
ConnectDistance == 100

\* 100 * Math.sin(2 * Math.PI * t * 2) for t = i / 40 (line 14), to the
\* nearest whole number: the sine has period 20 in i.
SineTable ==
  <<0, 31, 59, 81, 95, 100, 95, 81, 59, 31,
    0, -31, -59, -81, -95, -100, -95, -81, -59, -31>>

Sine100(i) == SineTable[(i % 20) + 1]

\* Lines 16-21.
ZoneOf(i) ==
  IF i < 8 THEN "lobby"
  ELSE IF i < 18 THEN "hallway_1"
  ELSE IF i < 28 THEN "office_area"
  ELSE IF i < 35 THEN "hallway_2"
  ELSE "restroom"

\* The object pushed for loop index i (lines 12-14, 23-29); x = 50 + t * 600
\* is 50 + 15 * i.
SampleNode(i) ==
  [id |-> i, x |-> 50 + 15 * i, y |-> 200 + Sine100(i), zone |-> ZoneOf(i),
   label |-> <<"N", i>>]

\* dx * dx + dy * dy of lines 35-37; a and b are elements of the nodes array.
DistSquared(a, b) ==
  LET dx == a.x - b.x
      dy == a.y - b.y
  IN  dx * dx + dy * dy

\* Math.sqrt (line 37) in whole units, rounded down.  It is applied only
\* below ConnectDistance squared.
FloorSqrt(n) == CHOOSE r \in 0 .. ConnectDistance : r * r <= n /\ n < (r + 1) * (r + 1)

\* The JavaScript array element a[k] of a sequence.
At(a, k) == a[k + 1]

\* The state at entry to generateSampleGraph (lines 6-7, 11: i = 0); the
\* component does not exist yet.
InitGen ==
  /\ genNodes = <<>> /\ genEdges = <<>>
  /\ genI = 0 /\ genJ = 0
  /\ genPc = "nodes"
  /\ nodes = <<>> /\ edges = <<>>
  /\ startNode = 0 /\ goalNode = 0 /\ multiGoals = <<>> /\ mode = "single"
  /\ currentPath = <<>> /\ pc = "mounted"
  /\ NoSearch /\ NoMulti /\ NoAnimation /\ NoMission

\* One pass of the node loop (lines 11-30).
PushNode ==
  /\ genPc = "nodes"
  /\ genI < SampleNodeCount
  /\ genNodes' = Append(genNodes, SampleNode(genI))
  /\ genI' = genI + 1
  /\ UNCHANGED <<genEdges, genJ, genPc, exVars, plannerFrame>>

\* The node loop ends and the outer edge loop starts (lines 11, 33-34).
StartConnect ==
  /\ genPc = "nodes"
  /\ ~(genI < SampleNodeCount)
  /\ genPc' = "edges"
  /\ genI' = 0
  /\ genJ' = 1
  /\ UNCHANGED <<genNodes, genEdges, exVars, plannerFrame>>

\* One pass of the inner edge loop (lines 34-46).
ConnectPair ==
  /\ genPc = "edges"
  /\ genI < Len(genNodes)
  /\ genJ < Len(genNodes)
  /\ LET d2 == DistSquared(At(genNodes, genI), At(genNodes, genJ))
     IN  genEdges' = IF d2 < ConnectDistance * ConnectDistance
                     THEN Append(genEdges, [from |-> genI, to |-> genJ,
                                            weight |-> FloorSqrt(d2)])
                     ELSE genEdges
  /\ genJ' = genJ + 1
  /\ UNCHANGED <<genNodes, genI, genPc, exVars, plannerFrame>>

\* NextRow with the inner loop starting at j = i instead of j = i + 1.
NextRowFromI ==
  /\ genPc = "edges"
  /\ genI < Len(genNodes)
  /\ ~(genJ < Len(genNodes))
  /\ genI' = genI + 1
  /\ genJ' = genI + 1
  /\ UNCHANGED <<genNodes, genEdges, genPc, exVars, plannerFrame>>

\* The inner loop ends: i++ and j = i + 1 (lines 33-34).
NextRow ==
  /\ genPc = "edges"
  /\ genI < Len(genNodes)
  /\ ~(genJ < Len(genNodes))
  /\ genI' = genI + 1
  /\ genJ' = genI + 2
  /\ UNCHANGED <<genNodes, genEdges, genPc, exVars, plannerFrame>>

\* The outer loop ends: return { nodes, edges } (line 49).
ReturnGraph ==
  /\ genPc = "edges"
  /\ ~(genI < Len(genNodes))
  /\ genPc' = "returned"
  /\ UNCHANGED <<genNodes, genEdges, genI, genJ, exVars, plannerFrame>>

NextGen == PushNode \/ StartConnect \/ ConnectPair \/ NextRow \/ ReturnGraph

SpecGen == InitGen /\ [][NextGen]_vars

\* ------------------------------------------------------------------ claims
Known == KnownNode(graph, startNode) /\ KnownNode(graph, goalNode)

Returned == pc = "astar" /\ status \in {"path", "null"}

\* C1 (as stated): the path astar returns weighs no more than any other path
\* from start to goal, whatever the node coordinates.
C1_OptimalAnyCoords ==
  (pc = "astar" /\ status = "path") =>
     \A p \in JoinedPaths(graph, startNode, goalNode) :
        PathWeight(graph, path) <= PathWeight(graph, p)

\* C1 (amended): when every edge weighs at least the straight-line distance
\* between its ends, the path astar returns weighs no more than any other
\* path from start to goal.
C1_OptimalWhenAdmissible ==
  (pc = "astar" /\ status = "path" /\ Admissible(graph)) =>
     \A p \in JoinedPaths(graph, startNode, goalNode) :
        PathWeight(graph, path) <= PathWeight(graph, p)

\* C1 witness: on an admissible graph with start and goal five apart, astar
\* returned a two-edge path although a heavier direct edge exists.
C1_Witness ==
  /\ pc = "astar" /\ status = "path" /\ Admissible(graph)
  /\ heuristic(nodes[startNode], nodes[goalNode]) > 0
  /\ Len(path) = 3
  /\ Joined(graph, startNode, goalNode)
  /\ PathWeight(graph, path) < PathWeight(graph, <<startNode, goalNode>>)

\* C2: for known start and goal astar never throws, and it returns null
\* exactly when no path follows the edges from their from node to their to
\* node.
C2_NullIffNoDirectedPath ==
  (Known /\ pc # "mounted" /\ status # "running") =>
     /\ status # "threw"
     /\ (status = "null") <=> (DirectedPaths(graph, startNode, goalNode) = {})

\* C6: every consecutive pair (u, v) of a returned path has an edge with
\* from = u and to = v.
C6_FollowsEdgeDirection ==
  (status = "path") =>
     \A i \in Hops(path) : DirEdge(graph, path[i], path[i + 1])

\* C8: the distance reported for the displayed path is the sum of the stored
\* weights of the edges along it.
C8_DistanceIsWeightSum ==
  (pc = "done" /\ currentPath # <<>>) =>
     calculatePathDistance(graph, currentPath) = PathWeight(graph, currentPath)

\* C9: astar(graph, start, start) returns [start] and relaxes no neighbour.
C9_StartIsGoal ==
  (Known /\ startNode = goalNode /\ pc # "mounted") =>
     /\ status \in {"running", "path"}
     /\ DOMAIN gScore = {startNode}
     /\ cameFrom = EmptyMap
     /\ openSet = <<startNode>>
     /\ (status = "path" => path = <<startNode>>)
     /\ (pc = "done" => currentPath = <<startNode>>)

\* C9 witness: the search from a node with neighbours to itself has ended.
C9_Witness ==
  /\ Known /\ startNode = goalNode /\ pc = "done"
  /\ Neighbors(graph, startNode) # <<>>

\* C10: among the open nodes with the minimum fScore, astar expands the one
\* with the lower gScore, and among those with equal gScore the lower id.
C10_TieBreak ==
  (pc = "astar" /\ status = "running" /\ openSet # <<>>) =>
     LET c == PickCurrent(openSet, fScore)
     IN  \A n \in Range(openSet) :
            (fScore[n] = fScore[c]) =>
               \/ gScore[c] < gScore[n]
               \/ (gScore[c] = gScore[n] /\ c <= n)

\* C7: no returned path steps between two nodes joined only by non-traversable
\* edges, and a goal all of whose edges are non-traversable is unreachable.
C7_NeverUsesNonTraversable ==
  /\ (status = "path") =>
        \A i \in Hops(path) :
           \E e \in Range(edges) :
              /\ {e.from, e.to} = {path[i], path[i + 1]}
              /\ e.traversable
  /\ ( /\ Known /\ Returned /\ startNode # goalNode
       /\ \E e \in Range(edges) : goalNode \in {e.from, e.to}
       /\ \A e \in Range(edges) : goalNode \in {e.from, e.to} => ~e.traversable )
     => status = "null"

\* ------------------------------------------------------------------ multi-goal claims
\* The remaining goals astar reaches from the current position.
ReachableGoals ==
  { g \in Range(remaining) : astar(graph, current, g).status = "path" }

\* The distance the planner ranks goal g by (line 149).
GoalDist(g) == calculatePathDistance(graph, astar(graph, current, g).path)

\* A pass of the while loop that selected a goal.
Selects == pc = "multi" /\ pc' = "multi"

\* C3: when the multi-goal planner finishes, every goal missing from the
\* returned path has no path from the last position reached.
C3_StopsOnlyWhenNothingReachable ==
  (pc = "done" /\ mode = "multi") =>
     \A g \in Range(multiGoals) :
        (g \notin Range(currentPath)) => JoinedPaths(graph, current, g) = {}

\* C4: the goal selected next has the minimum path distance among the
\* remaining reachable goals, and among equals the lowest goal id.
C4_NearestThenLowestId ==
  [][ Selects =>
        /\ current' \in ReachableGoals
        /\ \A g \in ReachableGoals :
              \/ GoalDist(current') < GoalDist(g)
              \/ (GoalDist(current') = GoalDist(g) /\ current' <= g) ]_vars

\* C5 (as stated): no segment appended after a goal was selected passes
\* through that goal again.
C5_NeverPassesCompletedGoal ==
  [][ Selects =>
        \A g \in Range(multiGoals) \ Range(remaining) :
           g \notin Range(SubSeq(fullPath', Len(fullPath) + 1, Len(fullPath'))) ]_vars

\* C5 (amended): every goal is selected at most once.  The goal a pass
\* selects is a remaining one, never one selected before; it alone leaves the
\* remaining set, and the accumulated path ends at it.
C5_SelectedAtMostOnce ==
  [][ Selects =>
        /\ current' \in Range(remaining)
        /\ current' \notin (Range(multiGoals) \ Range(remaining))
        /\ Range(remaining') = Range(remaining) \ {current'}
        /\ Len(remaining') = Len(remaining) - 1
        /\ fullPath'[Len(fullPath')] = current' ]_vars

\* C5 witness: three goals were selected and the returned path passes through
\* one of them twice.
C5_Witness ==
  /\ pc = "done" /\ mode = "multi"
  /\ remaining = <<>>
  /\ Len(SetOf(multiGoals)) = MaxGoals
  /\ \E i, j \in DOMAIN currentPath :
        i < j /\ currentPath[i] = currentPath[j]
              /\ currentPath[i] \in Range(multiGoals)

\* C11: the path the multi-goal planner accumulates begins with the start
\* node, holds no node in two consecutive positions, steps only between nodes
\* joined by an edge, and ends at the goal selected last (at the start node
\* while none is selected).
C11_AccumulatedPath ==
  (mode = "multi" /\ pc \in {"multi", "break", "done"}) =>
     /\ fullPath[1] = startNode
     /\ \A i \in Hops(fullPath) :
           /\ fullPath[i] # fullPath[i + 1]
           /\ Joined(graph, fullPath[i], fullPath[i + 1])
     /\ fullPath[Len(fullPath)] = current
     /\ \/ current = startNode /\ Len(fullPath) = 1
        \/ current \in Range(multiGoals) \ Range(remaining)
     /\ (pc = "done" => currentPath = fullPath)

\* C11 witness: two segments of two edges each were appended, the second
\* starting where the first ended.
C11_Witness ==
  /\ pc = "done" /\ mode = "multi"
  /\ Len(currentPath) = 5
  /\ currentPath[3] \in Range(multiGoals)
  /\ currentPath[2] \notin Range(multiGoals)
  /\ currentPath[4] \notin Range(multiGoals)
  /\ currentPath[5] \in Range(multiGoals)

\* C20: a path astar returns has start as its first node and goal as its
\* last, holds no node twice, and steps only between nodes joined by an edge.
C20_PathWellFormed ==
  (status = "path") =>
     /\ Len(path) >= 1
     /\ path[1] = startNode
     /\ path[Len(path)] = goalNode
     /\ \A i, j \in DOMAIN path : i # j => path[i] # path[j]
     /\ \A i \in Hops(path) : Joined(graph, path[i], path[i + 1])

\* C20 witness: astar returned a path through every node of the graph, one of
\* its steps against the direction of the only edge between the two nodes.
C20_Witness ==
  /\ pc = "astar" /\ status = "path"
  /\ Len(path) = NumNodes
  /\ \E i \in Hops(path) : ~DirEdge(graph, path[i], path[i + 1])

\* Following cameFrom from node n reaches start within k steps.
RECURSIVE WalkReaches(_, _, _, _)
WalkReaches(cf, n, start, k) ==
  IF n = start THEN ~MapHas(cf, n)
  ELSE IF k = 0 \/ ~MapHas(cf, n) THEN FALSE
  ELSE WalkReaches(cf, cf[n], start, k - 1)

\* C19: for known start and goal the search ends with a path or null; a pass
\* of the loop puts an already discovered node back into the open set only
\* when it lowers that node's gScore, and never raises a gScore; the walk
\* over cameFrom from any discovered node reaches start without visiting a
\* node twice.
C19_Terminates ==
  /\ (Known /\ pc = "mounted") ~> (pc = "done" /\ status \in {"path", "null"})
  /\ [][ (pc = "astar" /\ status = "running" /\ status' = "running") =>
           /\ \A n \in Range(openSet') \ Range(SetDelete(openSet, PickCurrent(openSet, fScore))) :
                 MapHas(gScore, n) => gScore'[n] < gScore[n]
           /\ \A n \in DOMAIN gScore :
                 /\ gScore'[n] <= gScore[n]
                 /\ (IF MapHas(cameFrom, n) THEN cameFrom'[n] # cameFrom[n]
                                            ELSE MapHas(cameFrom', n))
                       => gScore'[n] < gScore[n] ]_vars
  /\ [](status \in {"running", "path", "null"} =>
          \A n \in DOMAIN gScore : WalkReaches(cameFrom, n, startNode, Cardinality(DOMAIN nodes) - 1))

\* C19 witness: a node that was expanded before (another node's cameFrom
\* points to it) is in the open set again, with a gScore below the weight of
\* the path it was first reached by.
C19_Witness ==
  /\ pc = "astar" /\ status = "running"
  /\ \E n \in Range(openSet) \ {startNode}, m \in DOMAIN cameFrom :
        /\ cameFrom[m] = n
        /\ gScore[m] > gScore[n] + FindEdge(graph, n, m).weight

\* ------------------------------------------------------------------ component claims
\* The planner is called with an id that is not a node of the graph.
UnknownInput ==
  IF mode = "single"
  THEN ~KnownNode(graph, startNode) \/ ~KnownNode(graph, goalNode)
  ELSE \/ ~KnownNode(graph, startNode)
       \/ \E i \in DOMAIN multiGoals : ~KnownNode(graph, multiGoals[i])

\* C12: calculatePath called with a start, goal or goal-list entry that is
\* not a node id throws before it sets a path: no path and no empty path is
\* ever displayed for such inputs, the exception leaves the displayed path as
\* it was, it is raised only for such inputs, and nothing is planned
\* afterwards.  NaN never reaches the goal list.
C12_UnknownIdThrows ==
  /\ [](pc = "idle" => ~UnknownInput)
  /\ [](\A i \in DOMAIN multiGoals : multiGoals[i] # NaN)
  /\ [][ (pc # "threw" /\ pc' = "threw") =>
           (UnknownInput' /\ currentPath' = currentPath) ]_vars
  /\ [][ (pc = "threw") =>
           (pc' = "threw" /\ currentPath' = currentPath
                          /\ inputVars' = inputVars) ]_vars

\* C12 witness: in multi mode the goal list holds a known node followed by
\* an id past the end of the nodes array; calculatePath threw and the path
\* displayed before is still the displayed one.
C12_Witness ==
  /\ pc = "threw" /\ mode = "multi"
  /\ Len(multiGoals) = 2
  /\ KnownNode(graph, multiGoals[1]) /\ multiGoals[2] = NumNodesUI
  /\ Len(currentPath) > 1

\* C13: no step changes the graph's nodes or edges, and the displayed path is
\* the path calculatePath returns when run again on the graph and inputs as
\* they are now.
C13_PlanningIsPure ==
  /\ [][nodes' = nodes /\ edges' = edges]_vars
  /\ [](pc = "idle" =>
          LET r == calculatePath(graph, mode, startNode, goalNode, multiGoals)
          IN  ~r.threw /\ currentPath = r.path)

\* C13 witness: after runs in both modes a multi-goal path over two goals is
\* displayed and an animation has been played.
C13_Witness ==
  /\ pc = "idle" /\ mode = "multi"
  /\ Len(multiGoals) = 2 /\ Len(currentPath) >= 3
  /\ startNode # 0
  /\ capturedPath # <<>>

\* C16: animatePath puts the robot position index at 0; while the component
\* is mounted every tick raises it by exactly 1 until it is L - 1, the last
\* tick leaves it there, and during the animation it lies in 0 .. L - 1, L
\* the length of the path the animation was started on.
C16_WalksOneNodeAtATime ==
  /\ [][ (~interval /\ interval') => (robotPos' = 0 /\ Len(capturedPath') > 0) ]_vars
  /\ [][ (interval /\ pc # "threw" /\ (pos' # pos \/ ~interval')) =>
           robotPos' = IF robotPos < Len(capturedPath) - 1
                       THEN robotPos + 1 ELSE robotPos ]_vars
  /\ [][ (interval /\ interval' /\ pc' # "threw") => robotPos' >= robotPos ]_vars
  /\ []((pc # "threw" /\ interval) =>
          (robotPos \in 0 .. (Len(capturedPath) - 1)))

\* C16 witness: the animation of a three-node path has reached the last node
\* and is still running.
C16_Witness ==
  /\ pc = "idle" /\ animating /\ interval
  /\ Len(capturedPath) = 3
  /\ robotPos = 2

\* C17: a timer that is set is eventually cleared; it is cleared by the L-th
\* tick, which on a mounted component sets animating to false and leaves the
\* robot position index at L - 1; on a mounted component animating is true
\* exactly while the timer is set; while the displayed path is empty no step
\* starts a timer or changes animating or the robot position.
C17_AnimationEnds ==
  /\ interval ~> ~interval
  /\ [][ (interval /\ interval') => (pos' = pos \/ pos' = pos + 1) ]_vars
  /\ [][ (interval /\ ~interval') =>
           /\ pos = Len(capturedPath) - 1
           /\ (pc # "threw") =>
                 (~animating' /\ robotPos' = Len(capturedPath) - 1) ]_vars
  /\ [](pc # "threw" => (animating <=> interval))
  /\ [][ (Len(currentPath) = 0 /\ ~interval) =>
           (~interval' /\ animating' = animating /\ robotPos' = robotPos) ]_vars

\* C17 witness: the animation of a one-node path has ended after its only
\* tick.
C17_Witness ==
  /\ pc = "idle" /\ ~interval /\ ~animating
  /\ Len(capturedPath) = 1
  /\ robotPos = 0

\* C18: while the component is animating, the robot position index is an
\* index of the displayed path.
C18_RobotOnDisplayedPath ==
  (pc = "idle" /\ animating) => robotPos < Len(currentPath)

\* ------------------------------------------------------------------ executor claims
\* A traversal failed: the executor penalized an edge.
TraversalFailed == exState = "Traversing" /\ exGraph' # exGraph

\* The edge the executor is about to traverse.
NextEdge == EdgeIndex(exGraph, exPath[1], exPath[2])

\* C14: a failed traversal penalizes the attempted edge and no other, keeps
\* the current node and the zone, and leads to Planning with one more retry;
\* the retries of a zone never exceed MaxRetries, and a failure at the cap
\* marks the zone ZoneUnreachable, from where the executor goes on to the
\* next zone.  An outcome once recorded stays, the zone index never goes
\* back, and the mission is abandoned only on the leg to the dock.
C14_BoundedRetries ==
  /\ [](exRetries \in 0 .. MaxRetries)
  /\ [][ TraversalFailed =>
           /\ exGraph'[NextEdge].failure_penalty > exGraph[NextEdge].failure_penalty
           /\ \A j \in DOMAIN exGraph : j # NextEdge => exGraph'[j] = exGraph[j]
           /\ exNode' = exNode /\ exIdx' = exIdx
           /\ IF exRetries < MaxRetries
              THEN exState' = "Planning" /\ exRetries' = exRetries + 1
              ELSE exState' = IF exIdx <= Len(exZones) THEN "ZoneUnreachable"
                                                      ELSE "MissionAbandoned" ]_vars
  /\ [](exState = "ZoneUnreachable" =>
          (exRetries = MaxRetries /\ exOutcome[exIdx] = "unreachable"))
  /\ [][ (exState = "ZoneUnreachable") =>
           (exState' = "Planning" /\ exIdx' = exIdx + 1 /\ exRetries' = 0
                                  /\ exNode' = exNode /\ exGraph' = exGraph) ]_vars
  /\ [][ /\ exZones' = exZones /\ exIdx' >= exIdx
         /\ \A i \in DOMAIN exOutcome :
               exOutcome[i] # "pending" => exOutcome'[i] = exOutcome[i] ]_vars
  /\ [](exState = "MissionAbandoned" => exIdx > Len(exZones))

\* C14 witness: the first zone was completed, the second marked unreachable
\* after traversal failures, and the robot is back at the dock.
C14_Witness ==
  /\ exState = "MissionComplete"
  /\ exOutcome = <<"completed", "unreachable">>
  /\ \E k \in DOMAIN exGraph : exGraph[k].failures >= 2
  /\ \A k \in DOMAIN exGraph : exGraph[k].traversable

SampleIds == { genNodes[k].id : k \in DOMAIN genNodes }

\* C21: the graph generateSampleGraph returns is well formed: every node's
\* id is its index in the nodes array, so ids are unique; every edge joins
\* two existing node ids with from < to; no unordered pair of nodes has more
\* than one edge; every edge weight is non-negative.
C21_GraphWellFormed ==
  genPc = "returned" =>
    /\ \A k \in 0 .. (Len(genNodes) - 1) : At(genNodes, k).id = k
    /\ \A a, b \in DOMAIN genNodes : a # b => genNodes[a].id # genNodes[b].id
    /\ \A k \in DOMAIN genEdges :
          /\ genEdges[k].from \in SampleIds
          /\ genEdges[k].to \in SampleIds
          /\ genEdges[k].from < genEdges[k].to
          /\ genEdges[k].weight >= 0
    /\ \A a, b \in DOMAIN genEdges :
          a # b => {genEdges[a].from, genEdges[a].to}
                     # {genEdges[b].from, genEdges[b].to}

\* The graph was returned with all its nodes, a node with several edges, and
\* an edge between nodes that are not next to each other in the array.
C21_Witness ==
  /\ genPc = "returned"
  /\ Len(genNodes) = SampleNodeCount
  /\ \E a, b \in DOMAIN genEdges :
        /\ a # b
        /\ genEdges[a].from = genEdges[b].from
        /\ genEdges[a].to > genEdges[a].from + 1

====
